---------------------------- MODULE Spec2Model ----------------------------
(***************************************************************************)
(* A model of the NuxtShip template scripts and request middleware:        *)
(*   - the Template Cleanup Orchestrator (deployment/scripts/              *)
(*     cleanup-template.ts and its earlier revisions),                     *)
(*   - the Environment Initializer (deployment/scripts/setup-env.ts),      *)
(*   - the Auth-Context Bridge (server/middleware/auth-context.ts and its  *)
(*     Logto revision) with requireAuth (server/utils/auth.ts),            *)
(*   - the single-step setup flow with waitForLogto.                       *)
(* Each component has its own specification over the shared variables;     *)
(* the variables of the other components stay at their initial values.     *)
(***************************************************************************)
EXTENDS Integers, Sequences, FiniteSets, TLC

VARIABLES
  \* ---- Template Cleanup Orchestrator ----
  variant,      \* which revision of the orchestrator runs
  gitStatus,    \* what `git status --porcelain ...` does in this directory
  pkg,          \* package.json
  env,          \* .env
  readme,       \* README.md
  license,      \* LICENSE exists
  script,       \* deployment/scripts/cleanup-template.ts exists
  pc,           \* position of main()
  hasChanges,   \* main's local hasChanges
  isTemplate,   \* main's local isTemplate
  timer,        \* the setTimeout callback of selfDelete is pending
  trace,        \* the sub-steps run so far, with their outcome
  pkg0,         \* package.json when the orchestrator started
  readme0,      \* README.md when the orchestrator started
  pkg1,         \* package.json as the run before this one left it
  round,        \* which run of the orchestrator in this directory this is
  \* ---- Environment Initializer ----
  dotenv,       \* .env
  example,      \* .env.example
  exitCode,     \* the exit status of the last run
  copied,       \* the last run's copyFileSync succeeded
  runs,         \* runs of the initializer so far
  edits,        \* operator edits so far
  lastOp,       \* what happened last: a run, or an operator edit
  dotenv0,      \* .env when the last run started
  example0,     \* .env.example when the last run started
  expected,     \* .env after the first run, or after the latest edit since
  \* ---- Auth-Context Bridge ----
  bridge,       \* which revision of the middleware is installed
  connVar,      \* auth.user_id of each pooled connection's session
  reqs,         \* the requests in flight
  \* ---- Single-step setup flow ----
  flowPc,       \* position of the flow's main() and of waitForLogto
  flowExit,     \* exit status of the flow's process, once it has exited
  flows,        \* runs of the flow so far
  started,      \* the steps of the current run that were started, in order
  found,        \* what the run's setup:env step met
  authDomain,   \* process.env.AUTH_DOMAIN of the flow's process is set
  attempts,     \* waitForLogto's local attempts
  probes,       \* fetch calls made by waitForLogto in this run
  lastProbe,    \* how the latest fetch call ended
  waitResult    \* how waitForLogto ended

cleanupVars == <<variant, gitStatus, pkg, env, readme, license, script, pc,
                 hasChanges, isTemplate, timer, trace, pkg0, readme0, pkg1, round>>

envVars == <<dotenv, example, exitCode, copied, runs, edits, lastOp, dotenv0,
             example0, expected>>

bridgeVars == <<bridge, connVar, reqs>>

flowVars == <<flowPc, flowExit, flows, started, found, authDomain, attempts,
              probes, lastProbe, waitResult>>

vars == <<cleanupVars, envVars, bridgeVars, flowVars>>

-----------------------------------------------------------------------------
(* Characters and strings.  A string the scripts take apart is a sequence  *)
(* of one-character strings.                                                *)

Uppers == <<"A","B","C","D","E","F","G","H","I","J","K","L","M",
            "N","O","P","Q","R","S","T","U","V","W","X","Y","Z">>
Lowers == <<"a","b","c","d","e","f","g","h","i","j","k","l","m",
            "n","o","p","q","r","s","t","u","v","w","x","y","z">>
Digits == {"0","1","2","3","4","5","6","7","8","9"}

Range(s) == { s[i] : i \in DOMAIN s }

\* String.prototype.toLowerCase, one character
ToLowerChar(c) ==
  IF \E i \in DOMAIN Uppers : Uppers[i] = c
  THEN Lowers[CHOOSE i \in DOMAIN Uppers : Uppers[i] = c]
  ELSE c

\* the regular expression class \s (and what trim() removes)
IsWs(c) == c \in {" ", "\t"}

\* the complement of the class [^a-z0-9-]
IsNpmChar(c) == c \in Range(Lowers) \cup Digits \cup {"-"}

ToLowerCase(s) == [i \in DOMAIN s |-> ToLowerChar(s[i])]

RECURSIVE DropLeadingWs(_)
DropLeadingWs(s) ==
  IF s = <<>> THEN <<>>
  ELSE IF IsWs(Head(s)) THEN DropLeadingWs(Tail(s)) ELSE s

RECURSIVE DropTrailingWs(_)
DropTrailingWs(s) ==
  IF s = <<>> THEN <<>>
  ELSE IF IsWs(s[Len(s)]) THEN DropTrailingWs(SubSeq(s, 1, Len(s) - 1)) ELSE s

\* String.prototype.trim
Trim(s) == DropTrailingWs(DropLeadingWs(s))

\* .replace(/\s+/g, '-')
RECURSIVE ReplaceWsRuns(_)
ReplaceWsRuns(s) ==
  IF s = <<>> THEN <<>>
  ELSE IF IsWs(Head(s)) THEN <<"-">> \o ReplaceWsRuns(DropLeadingWs(s))
  ELSE <<Head(s)>> \o ReplaceWsRuns(Tail(s))

\* .replace(/[^a-z0-9-]/g, '')
StripNonNpm(s) == SelectSeq(s, IsNpmChar)

\* .replace(/['"]/g, '')
IsNotQuote(c) == c \notin {"'", "\""}
StripQuotes(s) == SelectSeq(s, IsNotQuote)

NpmNameNoStrip(projectName) == ReplaceWsRuns(ToLowerCase(projectName))

\* projectName.toLowerCase().replace(/\s+/g, '-').replace(/[^a-z0-9-]/g, '')
NpmName(projectName) == StripNonNpm(ReplaceWsRuns(ToLowerCase(projectName)))

\* projectName.toLowerCase().replace(/\s+/g, '-')   (README directory name)
DirName(projectName) == ReplaceWsRuns(ToLowerCase(projectName))

Nuxtship == <<"n","u","x","t","s","h","i","p">>
MyApp == <<"M","y"," ","A","p","p">>
MyCoolApp == <<"M","y"," ","C","o","o","l"," ","A","p","p","!">>
MyCoolAppNpm == <<"m","y","-","c","o","o","l","-","a","p","p">>
Acme == <<"a","c","m","e">>

-----------------------------------------------------------------------------
(* package.json.  A parsed manifest is a record; a scripts entry that is   *)
(* not there maps to Absent.  fmt is the layout of the bytes on disk:      *)
(* "canonical" is what JSON.stringify(x, null, 2) + '\n' produces.         *)

Absent == "<absent>"

CommandsToRemove ==
  {"init", "setup:env", "setup:full", "setup:certs", "setup:init-steps",
   "setup:containers", "setup:database", "setup:auth", "setup:auth:provision"}

\* the removal list of the first revision (no setup:auth:provision)
CommandsToRemoveLegacy ==
  {"init", "setup:env", "setup:full", "setup:certs", "setup:init-steps",
   "setup:containers", "setup:database", "setup:auth"}

RenameSources ==
  {"containers:start", "containers:stop", "containers:restart",
   "containers:logs", "containers:status"}

\* the rename map
Renames ==
  [old \in RenameSources |->
     CASE old = "containers:start"   -> "infra:start"
       [] old = "containers:stop"    -> "infra:stop"
       [] old = "containers:restart" -> "infra:restart"
       [] old = "containers:logs"    -> "infra:logs"
       [] old = "containers:status"  -> "infra:status"]

RenameTargets == { Renames[old] : old \in RenameSources }

SourceOf(new) == CHOOSE old \in RenameSources : Renames[old] = new

\* every scripts key of the model: the two lists and one runtime command
Keys == CommandsToRemove \cup RenameSources \cup RenameTargets \cup {"dev"}

\* JavaScript truthiness of scripts[cmd]: undefined and '' are falsy
Truthy(v) == v # Absent /\ v # ""

RemoveFirstCommand(scripts, list) ==
  IF \E k \in list : Truthy(scripts[k])
  THEN [scripts EXCEPT ![CHOOSE k \in list : Truthy(scripts[k])] = Absent]
  ELSE scripts

\* commandsToRemove.forEach(cmd => { if (scripts[cmd]) delete scripts[cmd] })
RemoveCommands(scripts, list) ==
  [k \in Keys |-> IF k \in list /\ Truthy(scripts[k]) THEN Absent ELSE scripts[k]]

RenameCommandsDropsOthers(scripts) ==
  [k \in Keys |->
     IF k \in RenameTargets /\ Truthy(scripts[SourceOf(k)]) THEN scripts[SourceOf(k)]
     ELSE IF k \in CommandsToRemove \cup RenameTargets THEN scripts[k]
     ELSE Absent]

\* Object.entries(renames).forEach(([oldName, newName]) => { if (scripts[oldName])
\*   { scripts[newName] = scripts[oldName]; delete scripts[oldName] } })
RenameCommands(scripts) ==
  [k \in Keys |->
     IF k \in RenameSources /\ Truthy(scripts[k]) THEN Absent
     ELSE IF k \in RenameTargets /\ Truthy(scripts[SourceOf(k)])
          THEN scripts[SourceOf(k)]
     ELSE scripts[k]]

NoScripts == [k \in Keys |-> Absent]

\* packageJson.scripts || {}
ScriptsOf(p) == IF p.hasScripts THEN p.scripts ELSE NoScripts

\* writeFile(packageJsonPath, JSON.stringify(packageJson, null, 2) + '\n')
WriteJson(p) == [p EXCEPT !.fmt = "canonical"]

\* readFile + JSON.parse succeed
Parses(p) == p.state = "ok"

InitCommand == "bun run setup:env && bun run setup:full"
InitialVersion == "0.1.0"

-----------------------------------------------------------------------------
(* .env: unreadable, or a sequence of KEY=value lines.                      *)

\* envContent.match(/^KEY=(.*)$/m): the first line of that key, 0 when none
MatchLine(e, key) ==
  IF \E i \in DOMAIN e.lines : e.lines[i].key = key
  THEN CHOOSE i \in DOMAIN e.lines :
         /\ e.lines[i].key = key
         /\ \A j \in 1..(i - 1) : e.lines[j].key # key
  ELSE 0

DefaultProjectName == MyApp

\* match?.[1]?.trim().replace(/['"]/g, '') || fallback
ReadmeName(e, key, fallback) ==
  LET i == MatchLine(e, key)
      v == IF i = 0 THEN <<>> ELSE StripQuotes(Trim(e.lines[i].val))
  IN IF v = <<>> THEN fallback ELSE v

-----------------------------------------------------------------------------
(* The sub-steps of the orchestrator as functions of the files they read:  *)
(* each gives the file it leaves and how it ended ("ok", "error" for its   *)
(* catch branch, "skipped" for an early return).                           *)

CleanupTemplateCommandsWritesFirst(p) ==
  [file |-> WriteJson(p), outcome |-> IF Parses(p) THEN "ok" ELSE "error"]

\* cleanupTemplateCommands of cleanup-template.ts
CleanupTemplateCommandsOf(p) ==
  IF ~Parses(p) THEN [file |-> p, outcome |-> "error"]
  ELSE [file |-> WriteJson([p EXCEPT
                   !.scripts = RenameCommands(RemoveCommands(ScriptsOf(p), CommandsToRemove)),
                   !.hasScripts = TRUE]),
        outcome |-> "ok"]

\* updatePackageInfo (the same in every revision that has it)
UpdatePackageInfoOf(p, e) ==
  IF ~e.readable THEN [file |-> p, outcome |-> "error"]
  ELSE IF MatchLine(e, "PROJECT_NAME") = 0 THEN [file |-> p, outcome |-> "skipped"]
  ELSE IF ~Parses(p) THEN [file |-> p, outcome |-> "error"]
  ELSE LET projectName == Trim(e.lines[MatchLine(e, "PROJECT_NAME")].val)
       IN [file |-> WriteJson([p EXCEPT !.name = NpmName(projectName),
                                        !.hasDesc = FALSE,
                                        !.version = InitialVersion]),
           outcome |-> "ok"]

\* isTemplateRepo
IsTemplateRepoOf(p) == Parses(p) /\ p.name = Nuxtship

\* cleanupTemplateCommands of the self-deleting revision: rewrites scripts.init
RewriteInitOf(p) ==
  IF ~Parses(p) THEN [file |-> p, outcome |-> "error"]
  ELSE [file |-> WriteJson([p EXCEPT
                   !.scripts = [ScriptsOf(p) EXCEPT !["init"] =
                                  IF Truthy(@) THEN InitCommand ELSE @],
                   !.hasScripts = TRUE]),
        outcome |-> "ok"]

\* cleanupReadme
CleanupReadmeOf(r, e) ==
  IF ~e.readable \/ ~r.readable THEN [file |-> r, outcome |-> "error"]
  ELSE LET projectName == ReadmeName(e, "PROJECT_NAME", DefaultProjectName)
           appName == ReadmeName(e, "APPLICATION_NAME", projectName)
       IN [file |-> [readable |-> TRUE,
                     templateTitle |-> FALSE,
                     title |-> IF r.templateTitle THEN appName ELSE r.title,
                     sections |-> {},
                     templateDir |-> FALSE,
                     dir |-> IF r.templateDir THEN DirName(projectName) ELSE r.dir,
                     templateFooter |-> FALSE],
           outcome |-> "ok"]

\* cleanupTemplate of the first revision
CleanupTemplateOf(p) ==
  IF ~Parses(p) THEN [file |-> p, outcome |-> "error"]
  ELSE IF p.name = Nuxtship THEN [file |-> p, outcome |-> "skipped"]
  ELSE [file |-> WriteJson([p EXCEPT
                   !.scripts = RenameCommands(RemoveCommands(ScriptsOf(p), CommandsToRemoveLegacy)),
                   !.hasScripts = TRUE]),
        outcome |-> "ok"]

HasUncommittedChangesOrFailure(g) == g \in {"dirty", "error"}

\* hasUncommittedChanges: result.trim() is non-empty; a failing query gives false
HasUncommittedChangesOf(g) == g = "dirty"

-----------------------------------------------------------------------------
(* The Template Cleanup Orchestrator: main() of each revision.             *)
(*   "head"    cleanup-template.ts: git guard, command cleanup, package    *)
(*             info                                                        *)
(*   "selfdel" the self-deleting revision: package info, template guard,   *)
(*             init rewrite, README, LICENSE, self-deletion                *)
(*   "legacy"  the first revision: cleanupTemplate alone                   *)

Variants == {"head", "selfdel", "legacy"}

Step(name, outcome) == [step |-> name, outcome |-> outcome]

FirstStep(v) ==
  CASE v = "head"    -> "hasUncommittedChanges"
    [] v = "selfdel" -> "updatePackageInfo"
    [] v = "legacy"  -> "cleanupTemplate"

\* main of cleanup-template.ts: if (!hasChanges) await cleanupTemplateCommands()
AfterGitGuard(changes) ==
  IF ~changes THEN "cleanupTemplateCommands" ELSE "updatePackageInfo"

AfterTemplateGuardAlways(template) == "rewriteInit"

\* main of the self-deleting revision: if (!isTemplate) { ... }
AfterTemplateGuard(template) == IF ~template THEN "rewriteInit" ELSE "done"

AfterUpdatePackageInfoReturns(v) == "done"

\* main: what follows await updatePackageInfo()
AfterUpdatePackageInfo(v) == IF v = "selfdel" THEN "isTemplateRepo" ELSE "done"

HasUncommittedChanges ==
  /\ variant = "head" /\ pc = "hasUncommittedChanges"
  /\ hasChanges' = HasUncommittedChangesOf(gitStatus)
  /\ pc' = AfterGitGuard(hasChanges')
  /\ trace' = Append(trace, Step("hasUncommittedChanges",
                IF gitStatus = "error" THEN "error" ELSE "ok"))
  /\ UNCHANGED <<variant, gitStatus, pkg, env, readme, license, script,
                 isTemplate, timer, pkg0, readme0, pkg1, round>>
  /\ UNCHANGED <<envVars, bridgeVars, flowVars>>

CleanupTemplateCommands ==
  /\ variant = "head" /\ pc = "cleanupTemplateCommands"
  /\ LET r == CleanupTemplateCommandsOf(pkg)
     IN /\ pkg' = r.file
        /\ trace' = Append(trace, Step("cleanupTemplateCommands", r.outcome))
  /\ pc' = "updatePackageInfo"
  /\ UNCHANGED <<variant, gitStatus, env, readme, license, script, hasChanges,
                 isTemplate, timer, pkg0, readme0, pkg1, round>>
  /\ UNCHANGED <<envVars, bridgeVars, flowVars>>

UpdatePackageInfo ==
  /\ variant \in {"head", "selfdel"} /\ pc = "updatePackageInfo"
  /\ LET r == UpdatePackageInfoOf(pkg, env)
     IN /\ pkg' = r.file
        /\ trace' = Append(trace, Step("updatePackageInfo", r.outcome))
  /\ pc' = AfterUpdatePackageInfo(variant)
  /\ UNCHANGED <<variant, gitStatus, env, readme, license, script, hasChanges,
                 isTemplate, timer, pkg0, readme0, pkg1, round>>
  /\ UNCHANGED <<envVars, bridgeVars, flowVars>>

IsTemplateRepo ==
  /\ variant = "selfdel" /\ pc = "isTemplateRepo"
  /\ isTemplate' = IsTemplateRepoOf(pkg)
  /\ pc' = AfterTemplateGuard(isTemplate')
  /\ trace' = Append(trace, Step("isTemplateRepo",
                IF Parses(pkg) THEN "ok" ELSE "error"))
  /\ UNCHANGED <<variant, gitStatus, pkg, env, readme, license, script,
                 hasChanges, timer, pkg0, readme0, pkg1, round>>
  /\ UNCHANGED <<envVars, bridgeVars, flowVars>>

RewriteInit ==
  /\ variant = "selfdel" /\ pc = "rewriteInit"
  /\ LET r == RewriteInitOf(pkg)
     IN /\ pkg' = r.file
        /\ trace' = Append(trace, Step("cleanupTemplateCommands", r.outcome))
  /\ pc' = "cleanupReadme"
  /\ UNCHANGED <<variant, gitStatus, env, readme, license, script, hasChanges,
                 isTemplate, timer, pkg0, readme0, pkg1, round>>
  /\ UNCHANGED <<envVars, bridgeVars, flowVars>>

CleanupReadme ==
  /\ variant = "selfdel" /\ pc = "cleanupReadme"
  /\ LET r == CleanupReadmeOf(readme, env)
     IN /\ readme' = r.file
        /\ trace' = Append(trace, Step("cleanupReadme", r.outcome))
  /\ pc' = "cleanupLicense"
  /\ UNCHANGED <<variant, gitStatus, pkg, env, license, script, hasChanges,
                 isTemplate, timer, pkg0, readme0, pkg1, round>>
  /\ UNCHANGED <<envVars, bridgeVars, flowVars>>

\* cleanupLicense: unlink(LICENSE); a missing file is swallowed
CleanupLicense ==
  /\ variant = "selfdel" /\ pc = "cleanupLicense"
  /\ license' = FALSE
  /\ trace' = Append(trace, Step("cleanupLicense", IF license THEN "ok" ELSE "error"))
  /\ pc' = "selfDelete"
  /\ UNCHANGED <<variant, gitStatus, pkg, env, readme, script, hasChanges,
                 isTemplate, timer, pkg0, readme0, pkg1, round>>
  /\ UNCHANGED <<envVars, bridgeVars, flowVars>>

\* selfDelete: setTimeout(unlink(scriptPath), 100)
SelfDelete ==
  /\ variant = "selfdel" /\ pc = "selfDelete"
  /\ timer' = TRUE
  /\ trace' = Append(trace, Step("selfDelete", "ok"))
  /\ pc' = "done"
  /\ UNCHANGED <<variant, gitStatus, pkg, env, readme, license, script,
                 hasChanges, isTemplate, pkg0, readme0, pkg1, round>>
  /\ UNCHANGED <<envVars, bridgeVars, flowVars>>

\* the timer callback, run once main has returned: unlink(scriptPath),
\* a failure is logged
SelfDeleteTimer ==
  /\ timer /\ pc = "done"
  /\ timer' = FALSE
  /\ \E unlinked \in BOOLEAN :
       /\ script' = IF unlinked THEN FALSE ELSE script
       /\ trace' = Append(trace, Step("unlinkScript",
                     IF script /\ unlinked THEN "ok" ELSE "error"))
  /\ UNCHANGED <<variant, gitStatus, pkg, env, readme, license, pc, hasChanges,
                 isTemplate, pkg0, readme0, pkg1, round>>
  /\ UNCHANGED <<envVars, bridgeVars, flowVars>>

CleanupTemplate ==
  /\ variant = "legacy" /\ pc = "cleanupTemplate"
  /\ LET r == CleanupTemplateOf(pkg)
     IN /\ pkg' = r.file
        /\ trace' = Append(trace, Step("cleanupTemplate", r.outcome))
  /\ pc' = "done"
  /\ UNCHANGED <<variant, gitStatus, env, readme, license, script, hasChanges,
                 isTemplate, timer, pkg0, readme0, pkg1, round>>
  /\ UNCHANGED <<envVars, bridgeVars, flowVars>>

-----------------------------------------------------------------------------
(* The states the orchestrator can start in.                               *)

MaxLen == 3

Formats == {"canonical", "other"}

\* a manifest whose every command is there; a command string is named
\* after its key, so that a renamed command is told from the one it replaces
FullScripts == [k \in Keys |-> k]

\* the template's manifest: no infra:* command yet
TemplateScripts == [k \in Keys |-> IF k \in RenameTargets THEN Absent ELSE k]

TweakKeys == {"init", "setup:auth:provision", "containers:start", "dev"}

Manifest(name, scripts, fmt) ==
  [state |-> "ok", fmt |-> fmt, name |-> name, version |-> "1.2.0",
   hasDesc |-> TRUE, hasScripts |-> TRUE, scripts |-> scripts,
   extra |-> "dependencies"]

PkgChoices ==
  { Manifest(n, [base EXCEPT ![k] = v], f) :
      n \in {Nuxtship, Acme}, base \in {FullScripts, TemplateScripts},
      k \in TweakKeys, v \in {"", Absent}, f \in Formats }
  \cup { Manifest(n, base, f) :
      n \in {Nuxtship, Acme}, base \in {FullScripts, TemplateScripts}, f \in Formats }
  \cup { [Manifest(Acme, NoScripts, "other") EXCEPT !.hasScripts = FALSE],
         [Manifest(Acme, TemplateScripts, "other") EXCEPT !.state = "unparsable"] }

Line(key, val) == [key |-> key, val |-> val]

EnvFile(lines) == [readable |-> TRUE, lines |-> lines]

EnvChoices ==
  { [readable |-> FALSE, lines |-> <<>>],
    EnvFile(<<Line("APP_DOMAIN", Acme)>>),
    EnvFile(<<Line("PROJECT_NAME", MyApp)>>),
    EnvFile(<<Line("PROJECT_NAME", Nuxtship)>>),
    EnvFile(<<Line("PROJECT_NAME", <<>>)>>),
    EnvFile(<<Line("APPLICATION_NAME", <<"\"">> \o MyCoolApp \o <<"\"">>),
              Line("PROJECT_NAME", <<" ">> \o Acme \o <<" ">>),
              Line("PROJECT_NAME", MyApp)>>) }

Sections == {"quickstart", "contributing", "license"}

TemplateReadme ==
  [readable |-> TRUE, templateTitle |-> TRUE, title |-> <<>>, sections |-> Sections,
   templateDir |-> TRUE, dir |-> <<>>, templateFooter |-> TRUE]

ReadmeChoices ==
  { TemplateReadme,
    [TemplateReadme EXCEPT !.readable = FALSE],
    [readable |-> TRUE, templateTitle |-> FALSE, title |-> Acme, sections |-> {},
     templateDir |-> FALSE, dir |-> Acme, templateFooter |-> FALSE] }

GitOutcomes == {"clean", "blank", "dirty", "error"}

NameAlphabet == {"M", "y", "1", "-", " ", "\t", "!"}

BoundedStrings == UNION { [1..n -> NameAlphabet] : n \in 0..MaxLen }

\* the project names of the name derivation: every short string, and the
\* documented example
NameInputs == BoundedStrings \cup {MyCoolApp}

StartCleanup ==
  /\ pc = FirstStep(variant)
  /\ hasChanges = FALSE /\ isTemplate = FALSE /\ timer = FALSE
  /\ script = TRUE
  /\ trace = <<>>
  /\ pkg0 = pkg /\ readme0 = readme
  /\ pkg1 = pkg /\ round = 1

\* the files vary; what a revision never reads is held fixed
InitFiles ==
  /\ variant \in Variants
  /\ gitStatus \in (IF variant = "head" THEN GitOutcomes ELSE {"clean"})
  /\ pkg \in PkgChoices
  /\ env \in (IF variant = "legacy" THEN {EnvFile(<<>>)} ELSE EnvChoices)
  /\ readme \in (IF variant = "selfdel" THEN ReadmeChoices ELSE {TemplateReadme})
  /\ license \in (IF variant = "selfdel" THEN BOOLEAN ELSE {TRUE})
  /\ StartCleanup

\* the project name varies
InitNames ==
  /\ variant \in {"head", "selfdel"}
  /\ gitStatus = "clean"
  /\ pkg = Manifest(Nuxtship, TemplateScripts, "canonical")
  /\ \E v \in NameInputs : env = EnvFile(<<Line("PROJECT_NAME", v)>>)
  /\ readme = TemplateReadme
  /\ license = TRUE
  /\ StartCleanup

InitCleanup == InitFiles \/ InitNames

NextCleanup ==
  \/ HasUncommittedChanges
  \/ CleanupTemplateCommands
  \/ UpdatePackageInfo
  \/ IsTemplateRepo
  \/ RewriteInit
  \/ CleanupReadme
  \/ CleanupLicense
  \/ SelfDelete
  \/ SelfDeleteTimer
  \/ CleanupTemplate

\* no orchestrator runs
IdleCleanup ==
  /\ variant = "head" /\ gitStatus = "clean"
  /\ pkg = Manifest(Acme, NoScripts, "canonical")
  /\ env = EnvFile(<<>>) /\ readme = TemplateReadme
  /\ license = TRUE /\ script = TRUE
  /\ pc = "idle"
  /\ hasChanges = FALSE /\ isTemplate = FALSE /\ timer = FALSE
  /\ trace = <<>>
  /\ pkg0 = pkg /\ readme0 = readme
  /\ pkg1 = pkg /\ round = 1

MaxRounds == 2

\* the operator runs cleanup-template.ts once more in the same directory
RunAgain ==
  /\ variant = "head" /\ pc = "done"
  /\ round < MaxRounds
  /\ round' = round + 1
  /\ pkg1' = pkg
  /\ pc' = FirstStep(variant)
  /\ hasChanges' = FALSE
  /\ trace' = <<>>
  /\ pkg0' = pkg /\ readme0' = readme
  /\ UNCHANGED <<variant, gitStatus, pkg, env, readme, license, script,
                 isTemplate, timer>>
  /\ UNCHANGED <<envVars, bridgeVars, flowVars>>

\* cleanup-template.ts is the revision that runs
InitHead == InitCleanup /\ variant = "head"

NextRerun ==
  \/ HasUncommittedChanges
  \/ CleanupTemplateCommands
  \/ UpdatePackageInfo
  \/ RunAgain

-----------------------------------------------------------------------------
(* Properties of the Template Cleanup Orchestrator.                        *)

\* the run is over: main has returned and no timer callback is pending
RunOver == pc = "done" /\ ~timer

Ran(name) == \E i \in DOMAIN trace : trace[i].step = name

RanWith(name, outcome) ==
  \E i \in DOMAIN trace : trace[i] = Step(name, outcome)

\* step a ran, and finished, before step b started
Before(a, b) ==
  \A i \in DOMAIN trace :
    trace[i].step = b => \E j \in 1..(i - 1) : trace[j].step = a

\* C2: if package.json's name is the reserved template identifier 'nuxtship'
\* when the orchestrator starts, package.json and README.md are byte-identical
\* before and after the run, for every .env.
C2_TemplateGuardKeepsFiles ==
  (RunOver /\ Parses(pkg0) /\ pkg0.name = Nuxtship)
    => (pkg = pkg0 /\ readme = readme0)

\* C3: if the version-control status query reports a pending change, the
\* orchestrator performs no mutation: package.json is unchanged after the run,
\* for every .env.
C3_UncommittedGuardKeepsManifest ==
  (RunOver /\ variant = "head" /\ gitStatus = "dirty") => pkg = pkg0

MutationSteps == {"updatePackageInfo", "cleanupTemplateCommands", "cleanupReadme"}

\* C4 as stated: the self-deletion is scheduled and executed only after all
\* package.json and README.md mutation steps of the run completed successfully
\* (none ended in its caught-error branch), and never when the template guard
\* fired.
C4_SelfDeleteOnlyAfterSuccess ==
  (Ran("selfDelete") \/ ~script) =>
    /\ ~isTemplate
    /\ \A m \in MutationSteps : Ran(m) /\ ~RanWith(m, "error") /\ Before(m, "selfDelete")

\* C4 as amended: the self-deletion is scheduled only after every
\* package.json and README.md mutation step of the run has been attempted and
\* has returned (whether it succeeded or ended in its caught-error branch),
\* the script is removed only by the scheduled callback after main returned,
\* and nothing is scheduled or removed in a run in which the template guard
\* fired.
C4_SelfDeleteOnlyAfterAllSteps ==
  /\ Ran("selfDelete") =>
       /\ ~isTemplate
       /\ \A m \in MutationSteps : Ran(m) /\ Before(m, "selfDelete")
  /\ ~script => (Ran("selfDelete") /\ Before("selfDelete", "unlinkScript") /\ pc = "done")
  /\ timer => Ran("selfDelete")
  /\ isTemplate => (script /\ ~timer /\ ~Ran("selfDelete"))

\* C4 witness: the script removed itself at the end of a run whose README
\* step had ended in its catch branch
C4_Witness ==
  /\ variant = "selfdel" /\ ~script /\ ~isTemplate
  /\ RanWith("cleanupReadme", "error") /\ RanWith("unlinkScript", "ok")

\* the command cleanup of a CLEAN run has completed
CommandCleanupDone ==
  \/ variant = "head" /\ ~hasChanges /\ RanWith("cleanupTemplateCommands", "ok")
  \/ variant = "legacy" /\ RanWith("cleanupTemplate", "ok")

\* C7: for every package.json whose scripts contain all commands of the
\* removal list, whatever command strings they map to, none of these keys
\* remains in scripts after the command cleanup has completed.
C7_RemovalListGone ==
  (/\ CommandCleanupDone
   /\ pkg0.hasScripts
   /\ \A k \in CommandsToRemove : pkg0.scripts[k] # Absent)
    => \A k \in CommandsToRemove : pkg.scripts[k] = Absent

\* C8: for every package.json whose scripts contain commands of the rename
\* map, after cleanup no containers:* key of the map remains and each
\* corresponding infra:* key maps to exactly the command string the old key
\* had before cleanup.
C8_RenamedWithOriginalValues ==
  (CommandCleanupDone /\ pkg0.hasScripts)
    => \A old \in RenameSources :
         pkg0.scripts[old] # Absent =>
           /\ pkg.scripts[old] = Absent
           /\ pkg.scripts[Renames[old]] = pkg0.scripts[old]

\* the name the documentation derives from a project name, character by
\* character: lower-cased, one hyphen where a run of whitespace starts,
\* nothing for any other character outside a-z, 0-9 and '-'
RECURSIVE DerivedFrom(_, _)
DerivedFrom(t, i) ==
  IF i > Len(t) THEN <<>>
  ELSE LET c == ToLowerChar(t[i])
           out == IF IsWs(t[i])
                  THEN IF i > 1 /\ IsWs(t[i - 1]) THEN <<>> ELSE <<"-">>
                  ELSE IF c \in Range(Lowers) \cup Digits \cup {"-"} THEN <<c>> ELSE <<>>
       IN out \o DerivedFrom(t, i + 1)

ProjectNameValue == env.lines[MatchLine(env, "PROJECT_NAME")].val

\* C9: updatePackageInfo sets package.json's name to the PROJECT_NAME value
\* of .env (the rest of the line, trimmed) lower-cased, every run of
\* whitespace replaced by one hyphen and every character outside a-z, 0-9
\* and '-' removed ("My Cool App!" gives my-cool-app), sets version to
\* '0.1.0' and removes description; the name holds only a-z, 0-9 and '-'.
C9_NameDerivation ==
  RanWith("updatePackageInfo", "ok") =>
    /\ pkg.name = DerivedFrom(Trim(ProjectNameValue), 1)
    /\ \A i \in DOMAIN pkg.name : pkg.name[i] \in Range(Lowers) \cup Digits \cup {"-"}
    /\ pkg.version = "0.1.0"
    /\ ~pkg.hasDesc
    /\ ProjectNameValue = MyCoolApp => pkg.name = MyCoolAppNpm

\* C9 witness: the documented example has been derived
C9_Witness ==
  /\ RanWith("updatePackageInfo", "ok")
  /\ ProjectNameValue = MyCoolApp
  /\ pkg.name = MyCoolAppNpm /\ pkg.version = "0.1.0" /\ ~pkg.hasDesc

\* the sub-steps main calls in a run, given what its guards returned
StepsOfRun ==
  CASE variant = "head" ->
         <<"hasUncommittedChanges">>
         \o (IF hasChanges THEN <<>> ELSE <<"cleanupTemplateCommands">>)
         \o <<"updatePackageInfo">>
    [] variant = "selfdel" ->
         <<"updatePackageInfo", "isTemplateRepo">>
         \o (IF isTemplate THEN <<>>
             ELSE <<"cleanupTemplateCommands", "cleanupReadme", "cleanupLicense",
                    "selfDelete", "unlinkScript">>)
    [] variant = "legacy" -> <<"cleanupTemplate">>

StepNames == [i \in DOMAIN trace |-> trace[i].step]

\* a sub-step has just ended in its catch branch or in an early return
SubStepFailed ==
  /\ Len(trace') = Len(trace) + 1
  /\ trace'[Len(trace')].outcome \in {"error", "skipped"}

CleanRun == variant \in {"head", "selfdel"} /\ ~hasChanges /\ ~isTemplate

\* the order the steps of a CLEAN run are described in: command removal and
\* renaming, manifest name/version/description and its persisting, README,
\* LICENSE, scheduling of self-deletion
DescribedOrder ==
  <<"cleanupTemplateCommands", "updatePackageInfo", "cleanupReadme",
    "cleanupLicense", "selfDelete">>

IsDescribed(s) == \E i \in DOMAIN DescribedOrder : DescribedOrder[i] = s

CleanOrder(v) ==
  IF v = "head"
  THEN <<"hasUncommittedChanges", "cleanupTemplateCommands", "updatePackageInfo">>
  ELSE <<"updatePackageInfo", "isTemplateRepo", "cleanupTemplateCommands",
         "cleanupReadme", "cleanupLicense", "selfDelete", "unlinkScript">>

IsPrefix(s, t) == Len(s) <= Len(t) /\ \A i \in DOMAIN s : s[i] = t[i]

CleanTreeResult(p, e) == UpdatePackageInfoOf(CleanupTemplateCommandsOf(p).file, e).file

\* C17: when the git status query cannot run or fails,
\* hasUncommittedChanges returns false and the orchestrator goes on exactly
\* as with a clean working tree; it returns true only when the query
\* succeeded with non-blank output.
C17_FailedQueryIsClean ==
  (variant = "head" /\ Ran("hasUncommittedChanges")) =>
    /\ hasChanges <=> gitStatus = "dirty"
    /\ gitStatus \in {"error", "clean", "blank"} =>
         /\ IsPrefix(StepNames, CleanOrder("head"))
         /\ RunOver => (StepNames = CleanOrder("head") /\ pkg = CleanTreeResult(pkg0, env))

\* C17 witness: the status query failed, and the run went on to remove and
\* rename the commands and to rewrite the manifest name
C17_Witness ==
  /\ variant = "head" /\ gitStatus = "error" /\ RunOver /\ ~hasChanges
  /\ RanWith("hasUncommittedChanges", "error")
  /\ RanWith("cleanupTemplateCommands", "ok")
  /\ RanWith("updatePackageInfo", "ok")
  /\ pkg # pkg0 /\ pkg0.scripts["setup:env"] # Absent /\ pkg.scripts["setup:env"] = Absent

\* C20: the manifest transformation of the CLEAN state is idempotent:
\* for every package.json and every .env, cleanupTemplateCommands followed
\* by updatePackageInfo, run a second time on the result of the first run,
\* leaves a package.json identical to that result.
C20_TransformationIdempotent ==
  (variant = "head" /\ round >= 2 /\ RunOver /\ ~hasChanges) =>
    /\ StepNames = CleanOrder("head")
    /\ pkg = pkg1

\* C20 witness: the first run removed and renamed commands and rewrote the
\* name, and the second run read every file again, wrote the manifest again
\* and left it as the first run had
C20_Witness ==
  /\ variant = "head" /\ round = 2 /\ RunOver /\ ~hasChanges
  /\ RanWith("cleanupTemplateCommands", "ok")
  /\ RanWith("updatePackageInfo", "ok")
  /\ pkg = pkg1 /\ pkg.name = MyCoolAppNpm
  /\ pkg.scripts["setup:env"] = Absent /\ pkg.scripts["infra:start"] # Absent

\* the scripts keys the cleanup has on its lists
ListedKeys == CommandsToRemove \cup RenameSources \cup RenameTargets

\* C21: the manifest cleanup changes nothing outside its fixed lists: every
\* scripts entry whose key is neither on the removal list nor a source or a
\* target of the rename map has the value it had before the run, and every
\* top-level field other than scripts, name, version and description is
\* preserved.
C21_NothingOutsideTheLists ==
  /\ \A k \in Keys \ ListedKeys : ScriptsOf(pkg)[k] = ScriptsOf(pkg0)[k]
  /\ pkg.extra = pkg0.extra
  /\ pkg.state = pkg0.state

\* C21 witness: a run of cleanup-template.ts has removed and renamed
\* commands and rewritten name, version and description, and the dev
\* command and the other top-level fields are what they were
C21_Witness ==
  /\ variant = "head" /\ RunOver
  /\ RanWith("cleanupTemplateCommands", "ok") /\ RanWith("updatePackageInfo", "ok")
  /\ pkg0.scripts["init"] = "init" /\ pkg.scripts["init"] = Absent
  /\ pkg0.scripts["containers:stop"] = "containers:stop"
  /\ pkg.scripts["infra:stop"] = "containers:stop"
  /\ pkg.name # pkg0.name /\ pkg0.hasDesc /\ ~pkg.hasDesc
  /\ pkg.scripts["dev"] = "dev" /\ pkg.extra = "dependencies"

-----------------------------------------------------------------------------
(* The Environment Initializer: main() of setup-env.ts.  A file is Missing *)
(* or holds a content; the initializer never looks inside one.             *)

MaxRuns == 3
MaxEdits == 2

Missing == "<missing>"
Truncated == ""

Templates == {"template-a", "template-b"}
Edited == {"edited-a", "edited-b"}

SetupEnvAlwaysCopies(d, x, copyOk, left) ==
  IF x = Missing THEN [dotenv |-> d, exit |-> 1, copied |-> FALSE]
  ELSE IF ~copyOk THEN [dotenv |-> left, exit |-> 1, copied |-> FALSE]
  ELSE [dotenv |-> x, exit |-> IF d # Missing THEN 0 ELSE 1, copied |-> TRUE]

SetupEnvExitsZero(d, x, copyOk, left) ==
  IF d # Missing THEN [dotenv |-> d, exit |-> 0, copied |-> FALSE]
  ELSE IF x = Missing THEN [dotenv |-> d, exit |-> 1, copied |-> FALSE]
  ELSE IF ~copyOk THEN [dotenv |-> left, exit |-> 1, copied |-> FALSE]
  ELSE [dotenv |-> x, exit |-> 0, copied |-> TRUE]

\* main: d is .env, x is .env.example, copyOk whether copyFileSync succeeds,
\* left what a failed copy leaves at .env
SetupEnvOf(d, x, copyOk, left) ==
  IF d # Missing THEN [dotenv |-> d, exit |-> 0, copied |-> FALSE]
  ELSE IF x = Missing THEN [dotenv |-> d, exit |-> 1, copied |-> FALSE]
  ELSE IF ~copyOk THEN [dotenv |-> left, exit |-> 1, copied |-> FALSE]
  ELSE [dotenv |-> x, exit |-> 1, copied |-> TRUE]

SetupEnv ==
  /\ runs < MaxRuns
  /\ \E copyOk \in BOOLEAN, left \in {Missing, Truncated} :
       LET r == SetupEnvOf(dotenv, example, copyOk, left)
       IN /\ dotenv' = r.dotenv
          /\ exitCode' = r.exit
          /\ copied' = r.copied
          /\ expected' = IF runs = 0 THEN r.dotenv ELSE expected
  /\ runs' = runs + 1
  /\ lastOp' = "setup-env"
  /\ dotenv0' = dotenv /\ example0' = example
  /\ UNCHANGED <<example, edits>>
  /\ UNCHANGED <<cleanupVars, bridgeVars, flowVars>>

\* the operator configures .env by hand
OperatorEdit ==
  /\ edits < MaxEdits
  /\ dotenv' \in Edited \ {dotenv}
  /\ expected' = dotenv'
  /\ edits' = edits + 1
  /\ lastOp' = "edit"
  /\ UNCHANGED <<example, exitCode, copied, runs, dotenv0, example0>>
  /\ UNCHANGED <<cleanupVars, bridgeVars, flowVars>>

InitEnv ==
  /\ dotenv \in {Missing} \cup Edited
  /\ example \in {Missing} \cup Templates
  /\ exitCode = 0 /\ copied = FALSE
  /\ runs = 0 /\ edits = 0
  /\ lastOp = "none"
  /\ dotenv0 = dotenv /\ example0 = example
  /\ expected = Missing

\* no initializer runs
IdleEnv ==
  /\ dotenv = Missing /\ example = Missing
  /\ exitCode = 0 /\ copied = FALSE
  /\ runs = 0 /\ edits = 0
  /\ lastOp = "idle"
  /\ dotenv0 = Missing /\ example0 = Missing
  /\ expected = Missing

NextEnv ==
  \/ SetupEnv
  \/ OperatorEdit

\* C5: whenever .env exists when the initializer starts, the run neither
\* copies .env.example nor writes .env, so after any sequence of runs .env
\* holds what it held after the first run (or what the operator put there
\* since), whether or not .env.example exists.
C5_ExistingEnvNeverOverwritten ==
  /\ (lastOp = "setup-env" /\ dotenv0 # Missing) => (dotenv = dotenv0 /\ ~copied)
  /\ (runs >= 1 /\ expected # Missing) => dotenv = expected

\* C5 witness: a second run found an operator-edited .env beside an existing
\* .env.example and left it alone
C5_Witness ==
  /\ runs >= 2 /\ lastOp = "setup-env"
  /\ dotenv0 \in Edited /\ example \in Templates /\ dotenv = dotenv0

\* C6: the initializer exits with status 0 if and only if .env existed when
\* it started; it exits non-zero when .env.example is missing (and then
\* creates no .env), when the copy fails, and when the copy succeeded and
\* .env was just created.
C6_ExitStatus ==
  lastOp = "setup-env" =>
    /\ exitCode = 0 <=> dotenv0 # Missing
    /\ (dotenv0 = Missing /\ example0 = Missing) => (exitCode # 0 /\ dotenv = Missing)
    /\ (dotenv0 = Missing /\ example0 # Missing /\ ~copied) => exitCode # 0
    /\ copied => (exitCode # 0 /\ dotenv0 = Missing /\ dotenv = example0)

\* C6 witness: a run has just created .env from .env.example and exited 1
C6_Witness ==
  /\ lastOp = "setup-env" /\ copied /\ exitCode = 1
  /\ dotenv0 = Missing /\ dotenv \in Templates

-----------------------------------------------------------------------------
(* The single-step setup flow: main(), waitForLogto(), setupLogto() and    *)
(* createApplicationAutomatically() of the setup script.  The flow runs    *)
(* the Environment Initializer as its first step, in a child process.      *)

MaxFlows == 1
MaxAttempts == 30

ProbeOutcomes == {"ok", "5xx", "threw"}

AfterChildIgnoresExit(exit, next) == next

\* execSync(...) throws when the child exits non-zero; main's catch block
\* then ends the process with status 1
AfterChild(exit, next) == IF exit = 0 THEN next ELSE "failed"

ProbeAnswered(outcome) == outcome # "threw"

\* response.status < 500
ProbeSucceeded(outcome) == outcome = "ok"

\* updateEnvFile(authDomain, application.id, application.secret): no
\* function of this name is declared or imported by the script, so the call
\* raises a ReferenceError and .env is left as it is
UpdateEnvFileOf(d) == [dotenv |-> d, threw |-> TRUE]

\* process.exit(status), or main() returning
Exit(status) ==
  /\ flowPc' = "exited"
  /\ flowExit' = status

\* the operator starts the flow
StartFlow ==
  /\ flowPc \in {"ready", "exited"}
  /\ pc \in {"idle", "ready", "done"}
  /\ flows < MaxFlows
  /\ flows' = flows + 1
  /\ flowPc' = "setup:env"
  /\ started' = <<>>
  /\ found' = "none"
  /\ authDomain' \in BOOLEAN
  /\ attempts' = 0 /\ probes' = 0 /\ lastProbe' = "none" /\ waitResult' = "none"
  /\ UNCHANGED flowExit
  /\ UNCHANGED <<cleanupVars, envVars, bridgeVars>>

\* execSync('bun run setup:env'): a whole run of the initializer
FlowSetupEnv ==
  /\ flowPc = "setup:env"
  /\ \E copyOk \in BOOLEAN, left \in {Missing, Truncated} :
       LET r == SetupEnvOf(dotenv, example, copyOk, left)
           after == AfterChild(r.exit, "setup:full")
       IN /\ dotenv' = r.dotenv
          /\ exitCode' = r.exit
          /\ copied' = r.copied
          /\ expected' = IF runs = 0 THEN r.dotenv ELSE expected
          /\ found' = IF dotenv # Missing THEN "existing"
                      ELSE IF example = Missing THEN "no-example"
                      ELSE IF copyOk THEN "created" ELSE "copy-failed"
          /\ IF after = "failed" THEN Exit(1)
             ELSE flowPc' = after /\ UNCHANGED flowExit
  /\ runs' = runs + 1
  /\ lastOp' = "setup-env"
  /\ dotenv0' = dotenv /\ example0' = example
  /\ started' = Append(started, "setup:env")
  /\ UNCHANGED <<example, edits>>
  /\ UNCHANGED <<flows, authDomain, attempts, probes, lastProbe, waitResult>>
  /\ UNCHANGED <<cleanupVars, bridgeVars>>

\* execSync('bun run setup:full'): certificates, containers, database
FlowSetupFull ==
  /\ flowPc = "setup:full"
  /\ started' = Append(started, "setup:full")
  /\ \E exit \in {0, 1} :
       LET after == AfterChild(exit, "waitForLogto")
       IN IF after = "failed" THEN Exit(1)
          ELSE flowPc' = after /\ UNCHANGED flowExit
  /\ UNCHANGED <<flows, found, authDomain, attempts, probes, lastProbe, waitResult>>
  /\ UNCHANGED <<cleanupVars, envVars, bridgeVars>>

\* waitForLogto(), up to the loop: AUTH_DOMAIN must be set; attempts = 0
WaitForLogto ==
  /\ flowPc = "waitForLogto"
  /\ started' = Append(started, "waitForLogto")
  /\ attempts' = 0
  /\ IF ~authDomain
     THEN /\ waitResult' = "no-domain"
          /\ Exit(1)
     ELSE /\ waitResult' = "none"
          /\ flowPc' = "probe"
          /\ UNCHANGED flowExit
  /\ UNCHANGED <<flows, found, authDomain, probes, lastProbe>>
  /\ UNCHANGED <<cleanupVars, envVars, bridgeVars>>

\* one turn of the loop: while (attempts < maxAttempts) { try { fetch;
\* if (response.status < 500) return } catch {}; attempts++;
\* if (attempts >= maxAttempts) throw ...
Probe ==
  /\ flowPc = "probe"
  /\ IF attempts < MaxAttempts
     THEN \E outcome \in ProbeOutcomes :
            /\ probes' = probes + 1
            /\ lastProbe' = outcome
            /\ IF ProbeSucceeded(outcome)
               THEN /\ waitResult' = "returned"
                    /\ flowPc' = "setupLogto"
                    /\ UNCHANGED <<attempts, flowExit>>
               ELSE /\ attempts' = attempts + 1
                    /\ IF attempts + 1 >= MaxAttempts
                       THEN waitResult' = "took-too-long" /\ Exit(1)
                       ELSE /\ flowPc' = "sleep"
                            /\ UNCHANGED <<waitResult, flowExit>>
     ELSE /\ waitResult' = "returned"
          /\ flowPc' = "setupLogto"
          /\ UNCHANGED <<attempts, probes, lastProbe, flowExit>>
  /\ UNCHANGED <<flows, started, found, authDomain>>
  /\ UNCHANGED <<cleanupVars, envVars, bridgeVars>>

\* await new Promise(resolve => setTimeout(resolve, 1000))
Sleep ==
  /\ flowPc = "sleep"
  /\ flowPc' = "probe"
  /\ UNCHANGED <<flowExit, flows, started, found, authDomain, attempts, probes,
                 lastProbe, waitResult>>
  /\ UNCHANGED <<cleanupVars, envVars, bridgeVars>>

\* setupLogto(), up to the choice between automatic and manual setup
SetupLogto ==
  /\ flowPc = "setupLogto"
  /\ started' = Append(started, "setupLogto")
  /\ \E appDomain \in BOOLEAN, management \in BOOLEAN :
       IF ~authDomain \/ ~appDomain
       THEN Exit(1)
       ELSE /\ flowPc' = IF management THEN "createApplication" ELSE "setupManually"
            /\ UNCHANGED flowExit
  /\ UNCHANGED <<flows, found, authDomain, attempts, probes, lastProbe, waitResult>>
  /\ UNCHANGED <<cleanupVars, envVars, bridgeVars>>

\* createApplicationAutomatically(): the token request, the application
\* request, then updateEnvFile; any failure is caught by setupLogto, which
\* falls back to the manual setup
CreateApplicationAutomatically ==
  /\ flowPc = "createApplication"
  /\ started' = Append(started, "createApplicationAutomatically")
  /\ \E tokenOk \in BOOLEAN, appOk \in BOOLEAN :
       IF tokenOk /\ appOk
       THEN LET u == UpdateEnvFileOf(dotenv)
            IN /\ dotenv' = u.dotenv
               /\ IF u.threw THEN flowPc' = "setupManually" /\ UNCHANGED flowExit
                  ELSE Exit(0)
       ELSE /\ dotenv' = dotenv
            /\ flowPc' = "setupManually"
            /\ UNCHANGED flowExit
  /\ UNCHANGED <<example, exitCode, copied, runs, edits, lastOp, dotenv0,
                 example0, expected>>
  /\ UNCHANGED <<flows, found, authDomain, attempts, probes, lastProbe, waitResult>>
  /\ UNCHANGED <<cleanupVars, bridgeVars>>

\* setupManually(): prints the instructions; main() then returns
SetupManually ==
  /\ flowPc = "setupManually"
  /\ started' = Append(started, "setupManually")
  /\ Exit(0)
  /\ UNCHANGED <<flows, found, authDomain, attempts, probes, lastProbe, waitResult>>
  /\ UNCHANGED <<cleanupVars, envVars, bridgeVars>>

\* the flow is not run
IdleFlow ==
  /\ flowPc = "idle" /\ flowExit = 0 /\ flows = 0
  /\ started = <<>> /\ found = "none"
  /\ authDomain = FALSE
  /\ attempts = 0 /\ probes = 0 /\ lastProbe = "none" /\ waitResult = "none"

\* the flow has not been started yet
InitFlow ==
  /\ flowPc = "ready" /\ flowExit = 0 /\ flows = 0
  /\ started = <<>> /\ found = "none"
  /\ authDomain = FALSE
  /\ attempts = 0 /\ probes = 0 /\ lastProbe = "none" /\ waitResult = "none"

\* waitForLogto has just been called
InitWait ==
  /\ flowPc = "waitForLogto" /\ flowExit = 0 /\ flows = 1
  /\ started = <<>> /\ found = "existing"
  /\ authDomain \in BOOLEAN
  /\ attempts = 0 /\ probes = 0 /\ lastProbe = "none" /\ waitResult = "none"

\* cleanup-template.ts is installed and has not been run
ReadyCleanup ==
  /\ variant = "head" /\ gitStatus \in {"clean", "dirty"}
  /\ pkg = Manifest(Nuxtship, TemplateScripts, "canonical")
  /\ env = EnvFile(<<Line("PROJECT_NAME", MyApp)>>)
  /\ readme = TemplateReadme
  /\ license = TRUE /\ script = TRUE
  /\ pc = "ready"
  /\ hasChanges = FALSE /\ isTemplate = FALSE /\ timer = FALSE
  /\ trace = <<>>
  /\ pkg0 = pkg /\ readme0 = readme
  /\ pkg1 = pkg /\ round = 1

\* the operator runs the orchestrator, while no setup flow is running
StartOrchestrator ==
  /\ pc = "ready"
  /\ flowPc \in {"ready", "exited"}
  /\ pc' = FirstStep(variant)
  /\ UNCHANGED <<variant, gitStatus, pkg, env, readme, license, script,
                 hasChanges, isTemplate, timer, trace, pkg0, readme0, pkg1, round>>
  /\ UNCHANGED <<envVars, bridgeVars, flowVars>>

NextSetup ==
  \/ StartOrchestrator
  \/ HasUncommittedChanges
  \/ CleanupTemplateCommands
  \/ UpdatePackageInfo
  \/ SetupEnv
  \/ OperatorEdit
  \/ StartFlow
  \/ FlowSetupEnv
  \/ FlowSetupFull
  \/ WaitForLogto
  \/ Probe
  \/ Sleep
  \/ SetupLogto
  \/ CreateApplicationAutomatically
  \/ SetupManually

NextWait ==
  \/ WaitForLogto
  \/ Probe
  \/ Sleep

\* the steps of the flow that read the project configuration
ConfigReaders ==
  {"setup:full", "waitForLogto", "setupLogto", "createApplicationAutomatically",
   "setupManually"}

HasStarted(step) == \E i \in DOMAIN started : started[i] = step

\* C14: in the single-step setup flow no step that reads the project
\* configuration (setup:full, waitForLogto, setupLogto) is started unless
\* the setup:env step before it found .env already there; in a run whose
\* setup:env step created .env, found .env.example missing or failed to
\* copy it, the flow exits non-zero with no later step started.
C14_ConfigReadersNeedExistingEnv ==
  /\ (\E step \in ConfigReaders : HasStarted(step)) =>
       (found = "existing" /\ started[1] = "setup:env")
  /\ found \in {"created", "no-example", "copy-failed"} =>
       /\ flowPc = "exited" /\ flowExit # 0
       /\ started = <<"setup:env">>

\* C14 witness: the flow's setup:env step has just created .env from
\* .env.example, and the flow has exited with status 1 after that step
C14_Witness ==
  /\ found = "created" /\ dotenv \in Templates /\ dotenv0 = Missing
  /\ flowPc = "exited" /\ flowExit = 1
  /\ started = <<"setup:env">>

WaitOver == waitResult # "none"

\* C18: with AUTH_DOMAIN set waitForLogto always ends: it returns as soon
\* as a probe answers with a status below 500, and otherwise throws 'Logto
\* took too long to start up' after the 30th failed probe, a probe that
\* throws or answers 5xx being a failed one; it never makes more than 30
\* probes and never returns without a successful probe.
C18_WaitForLogtoTerminates ==
  /\ [](/\ probes <= 30
        /\ waitResult = "returned" => (lastProbe = "ok" /\ probes = attempts + 1)
        /\ waitResult = "took-too-long" =>
             (probes = 30 /\ attempts = 30 /\ lastProbe \in {"5xx", "threw"})
        /\ (lastProbe = "ok" /\ probes > 0) => waitResult = "returned"
        /\ (authDomain /\ waitResult = "none") => probes = attempts)
  /\ (authDomain ~> WaitOver)

\* C18 witness: waitForLogto has thrown after thirty failed probes, the
\* last of which was answered with a 5xx status
C18_Witness ==
  /\ authDomain /\ waitResult = "took-too-long"
  /\ probes = 30 /\ lastProbe = "5xx"
  /\ flowPc = "exited" /\ flowExit = 1

-----------------------------------------------------------------------------
(* The Auth-Context Bridge: the middleware of auth-context.ts ("oidc",     *)
(* SET LOCAL) and of its Logto revision ("logto", SET SESSION).  The       *)
(* requests are two concurrent requests; each await is a point where the   *)
(* other request may run.  Every statement given to the shared db handle   *)
(* runs on some connection of its pool.                                    *)

PoolSize == 2
MaxQueries == 1

Bridges == {"oidc", "logto"}
Reqs == {"r1", "r2"}
Conns == 1..PoolSize

NoUser == "<none>"
Subjects == {"alice", "bob"}

\* what session resolution does for a request: a session of a subject, no
\* session, a session without a subject, a session with an empty subject,
\* the 'Not authenticated.' error, or any other failure
SessionKinds == Subjects \cup {"null", "nosub", "emptysub", "unauthenticated", "failure"}

NoValidSession == {"null", "nosub", "emptysub", "unauthenticated"}

\* session?.userInfo?.sub  /  user?.sub
SubOf(kind) ==
  CASE kind \in Subjects -> kind
    [] kind = "emptysub" -> ""
    [] OTHER             -> NoUser

Throws(kind) == kind \in {"unauthenticated", "failure"}

HasSubjectAlways(userId) == TRUE

\* if (userId)
HasSubject(userId) == userId # NoUser /\ userId # ""

\* the session variable of connection c after the SET statement has run there
\* outside any transaction block: SET SESSION lasts for the session, SET
\* LOCAL ends with the statement
AfterSet(b, cv, c, userId) ==
  IF b = "logto" THEN [cv EXCEPT ![c] = userId] ELSE cv

\* catch (error): logged, except 'Not authenticated.' in the Logto revision
Logs(b, kind) == ~(b = "logto" /\ kind = "unauthenticated")

IsApiAlways(url) == TRUE

\* event.node.req.url?.startsWith('/api/'): not so for another path, and
\* not so for a request without a URL
IsApi(url) == url = "api"

InTryResolveOnly(step) == step = "resolve"

\* the steps of the middleware inside try { ... }
InTry(step) == step \in {"resolve", "set", "store"}

\* where a failure at a step leads: into the catch block, after which the
\* handler returns and the request continues, or out of the handler
AfterFailure(step) == IF InTry(step) THEN "next" ELSE "raised"

Unauthorized == "401"

RequireAuthNoCheck(ctxUserId) == ctxUserId

\* requireAuth: if (!userId) throw createError({ statusCode: 401 }); return userId
RequireAuthOf(ctxUserId) ==
  IF ctxUserId # NoUser /\ ctxUserId # "" THEN ctxUserId ELSE Unauthorized

NewRequest(url, kind) ==
  [url |-> url, kind |-> kind, pc |-> "new", userId |-> NoUser,
   ctxUserId |-> NoUser, ctxUser |-> NoUser, raised |-> FALSE,
   resolved |-> FALSE, setIssued |-> FALSE, setOk |-> FALSE,
   logged |-> FALSE, observed |-> {}, queries |-> 0, auth |-> "none"]

\* if (!event.node.req.url?.startsWith('/api/')) return
Enter(r) ==
  /\ reqs[r].pc = "new"
  /\ reqs' = [reqs EXCEPT ![r].pc = IF IsApi(reqs[r].url) THEN "resolve" ELSE "next"]
  /\ UNCHANGED <<bridge, connVar>>
  /\ UNCHANGED <<cleanupVars, envVars, flowVars>>

\* const session = await getAuthSession(event); const userId = session?.userInfo?.sub
Resolve(r) ==
  /\ reqs[r].pc = "resolve"
  /\ LET kind == reqs[r].kind
         after == AfterFailure("resolve")
     IN reqs' = [reqs EXCEPT ![r] =
          IF Throws(kind)
          THEN [@ EXCEPT !.resolved = TRUE, !.pc = after,
                         !.raised = (after = "raised"),
                         !.logged = (after = "next" /\ Logs(bridge, kind))]
          ELSE [@ EXCEPT !.resolved = TRUE, !.userId = SubOf(kind),
                         !.pc = IF HasSubject(SubOf(kind)) THEN "set" ELSE "next"]]
  /\ UNCHANGED <<bridge, connVar>>
  /\ UNCHANGED <<cleanupVars, envVars, flowVars>>

\* await db.execute(SET ... auth.user_id = userId): on any connection of the
\* pool; the statement may fail, and the rest of the try block is skipped
SetRls(r) ==
  /\ reqs[r].pc = "set"
  /\ \E c \in Conns, ok \in BOOLEAN :
       IF ok
       THEN /\ connVar' = AfterSet(bridge, connVar, c, reqs[r].userId)
            /\ reqs' = [reqs EXCEPT ![r].setIssued = TRUE, ![r].setOk = TRUE,
                                    ![r].pc = "store"]
       ELSE /\ connVar' = connVar
            /\ LET after == AfterFailure("set")
               IN reqs' = [reqs EXCEPT ![r].setIssued = TRUE, ![r].pc = after,
                                       ![r].raised = (after = "raised"),
                                       ![r].logged = (after = "next")]
  /\ UNCHANGED bridge
  /\ UNCHANGED <<cleanupVars, envVars, flowVars>>

\* event.context.userId = userId; event.context.user = session.userInfo
Store(r) ==
  /\ reqs[r].pc = "store"
  /\ reqs' = [reqs EXCEPT ![r].ctxUserId = reqs[r].userId, ![r].ctxUser = reqs[r].kind,
                          ![r].pc = "next"]
  /\ UNCHANGED <<bridge, connVar>>
  /\ UNCHANGED <<cleanupVars, envVars, flowVars>>

\* a statement of the route handler, on behalf of request r, on any
\* connection of the pool: it sees that connection's auth.user_id
Query(r) ==
  /\ reqs[r].pc = "next"
  /\ reqs[r].queries < MaxQueries
  /\ \E c \in Conns :
       reqs' = [reqs EXCEPT ![r].observed = @ \cup {connVar[c]},
                            ![r].queries = @ + 1]
  /\ UNCHANGED <<bridge, connVar>>
  /\ UNCHANGED <<cleanupVars, envVars, flowVars>>

\* the route handler calls requireAuth(event)
RequireAuth(r) ==
  /\ reqs[r].pc = "next"
  /\ reqs[r].auth = "none"
  /\ reqs' = [reqs EXCEPT ![r].auth = RequireAuthOf(reqs[r].ctxUserId)]
  /\ UNCHANGED <<bridge, connVar>>
  /\ UNCHANGED <<cleanupVars, envVars, flowVars>>

\* the response is sent
Finish(r) ==
  /\ reqs[r].pc = "next"
  /\ reqs' = [reqs EXCEPT ![r].pc = "done"]
  /\ UNCHANGED <<bridge, connVar>>
  /\ UNCHANGED <<cleanupVars, envVars, flowVars>>

Urls == {"api", "page", "nourl"}

RequestChoices ==
  { NewRequest("api", k) : k \in SessionKinds } \cup
  { NewRequest(u, "alice") : u \in Urls \ {"api"} }

InitBridge ==
  /\ bridge \in Bridges
  /\ connVar = [c \in Conns |-> NoUser]
  /\ reqs \in [Reqs -> RequestChoices]

\* no request is served
IdleBridge ==
  /\ bridge = "oidc"
  /\ connVar = [c \in Conns |-> NoUser]
  /\ reqs = [r \in Reqs |-> [NewRequest("page", "null") EXCEPT !.pc = "idle"]]

NextBridge ==
  \/ \E r \in Reqs : Enter(r)
  \/ \E r \in Reqs : Resolve(r)
  \/ \E r \in Reqs : SetRls(r)
  \/ \E r \in Reqs : Store(r)
  \/ \E r \in Reqs : Query(r)
  \/ \E r \in Reqs : RequireAuth(r)
  \/ \E r \in Reqs : Finish(r)

\* C1: no statement executed on behalf of a request ever observes the RLS
\* session variable holding another request's subject: it sees the
\* request's own subject or nothing, and an unauthenticated request sees
\* nothing.
C1_Isolation ==
  \A r \in Reqs : reqs[r].observed \subseteq {NoUser, SubOf(reqs[r].kind)}

\* C10: for a request under /api/ with no valid session, the bridge
\* completes without raising, leaves event.context.userId and
\* event.context.user unset, and executes no statement that sets the RLS
\* variable.
C10_UnauthenticatedLeavesNoContext ==
  \A r \in Reqs :
    (reqs[r].url = "api" /\ reqs[r].kind \in NoValidSession) =>
      /\ ~reqs[r].raised
      /\ reqs[r].ctxUserId = NoUser /\ reqs[r].ctxUser = NoUser
      /\ ~reqs[r].setIssued
      /\ reqs[r].pc \in {"new", "resolve", "next", "done"}

\* C10 witness: the bridge has completed for an API request whose session
\* resolution failed as unauthenticated, and for one without a session
C10_Witness ==
  /\ reqs["r1"].url = "api" /\ reqs["r1"].kind = "unauthenticated"
  /\ reqs["r1"].pc = "done" /\ ~reqs["r1"].raised /\ reqs["r1"].ctxUserId = NoUser
  /\ reqs["r2"].url = "api" /\ reqs["r2"].kind = "null"
  /\ reqs["r2"].pc = "done" /\ ~reqs["r2"].raised /\ reqs["r2"].ctxUserId = NoUser

\* C11: for a request whose URL is not under /api/, the bridge returns
\* without resolving a session, without executing a database statement and
\* without writing event.context: the context is as it was before the
\* middleware, and nothing is logged or raised.
C11_NonApiPassesThrough ==
  \A r \in Reqs :
    reqs[r].url # "api" =>
      /\ ~reqs[r].resolved /\ reqs[r].userId = NoUser
      /\ ~reqs[r].setIssued /\ ~reqs[r].setOk
      /\ reqs[r].ctxUserId = NoUser /\ reqs[r].ctxUser = NoUser
      /\ ~reqs[r].logged /\ ~reqs[r].raised
      /\ reqs[r].pc \in {"new", "next", "done"}

\* C11 witness: a page request of a signed-in user and a request without a
\* URL have both passed the middleware and been answered, next to no
\* other statement of the bridge
C11_Witness ==
  /\ reqs["r1"].url = "page" /\ reqs["r1"].kind = "alice" /\ reqs["r1"].pc = "done"
  /\ reqs["r2"].url = "nourl" /\ reqs["r2"].pc = "done"
  /\ \A c \in Conns : connVar[c] = NoUser

\* C12: for an API request the handler of the bridge completes normally
\* whatever fails inside it: a failed session resolution and a failed SET
\* statement are both caught, nothing propagates to the caller, and the
\* request goes on to its route handler.
C12_FailuresNeverPropagate ==
  \A r \in Reqs :
    reqs[r].url = "api" =>
      /\ ~reqs[r].raised /\ reqs[r].pc # "raised"
      /\ (reqs[r].resolved /\ Throws(reqs[r].kind)) => reqs[r].pc \in {"next", "done"}
      /\ (reqs[r].setIssued /\ ~reqs[r].setOk) => reqs[r].pc \in {"next", "done"}

\* C12 witness: one API request whose session resolution failed and one
\* whose SET statement failed have both been answered by their route
\* handlers
C12_Witness ==
  /\ reqs["r1"].url = "api" /\ reqs["r1"].kind = "failure"
  /\ reqs["r1"].resolved /\ reqs["r1"].logged /\ reqs["r1"].pc = "done"
  /\ reqs["r2"].url = "api" /\ reqs["r2"].kind = "alice"
  /\ reqs["r2"].setIssued /\ ~reqs["r2"].setOk /\ reqs["r2"].logged
  /\ reqs["r2"].pc = "done"

\* requireAuth has returned a user id to the route handler of request r
Returned(r) == reqs[r].auth \notin {"none", Unauthorized}

\* C19: requireAuth returns a user id only if the bridge, for that same
\* request, resolved a session whose subject is that id and the SET
\* statement for that id completed without error before the identity was
\* stored on the context; in every other case (path outside /api/, no
\* session, no subject, session resolution failed, SET statement failed)
\* event.context.userId is unset and requireAuth raises the 401 error.
C19_RequireAuthNeedsBridge ==
  \A r \in Reqs :
    /\ Returned(r) =>
         /\ reqs[r].url = "api" /\ reqs[r].resolved
         /\ reqs[r].kind \in Subjects /\ reqs[r].auth = reqs[r].kind
         /\ reqs[r].setOk /\ reqs[r].ctxUserId = reqs[r].auth
    /\ reqs[r].ctxUserId # NoUser =>
         (reqs[r].setOk /\ reqs[r].kind \in Subjects /\ reqs[r].ctxUserId = reqs[r].kind)
    /\ (\/ reqs[r].url # "api"
        \/ reqs[r].kind \notin Subjects
        \/ (reqs[r].setIssued /\ ~reqs[r].setOk)) =>
         /\ reqs[r].ctxUserId = NoUser
         /\ reqs[r].auth \in {"none", Unauthorized}

\* C19 witness: requireAuth has returned alice to the handler of alice's
\* request, and has raised 401 for bob's request, whose SET statement
\* failed
C19_Witness ==
  /\ reqs["r1"].kind = "alice" /\ reqs["r1"].url = "api"
  /\ reqs["r1"].setOk /\ reqs["r1"].auth = "alice"
  /\ reqs["r2"].kind = "bob" /\ reqs["r2"].url = "api"
  /\ reqs["r2"].setIssued /\ ~reqs["r2"].setOk /\ reqs["r2"].auth = Unauthorized

-----------------------------------------------------------------------------
InitCleanupSpec == InitCleanup /\ IdleEnv /\ IdleBridge /\ IdleFlow

InitEnvSpec == IdleCleanup /\ InitEnv /\ IdleBridge /\ IdleFlow

InitBridgeSpec == IdleCleanup /\ IdleEnv /\ InitBridge /\ IdleFlow

InitSetupSpec == ReadyCleanup /\ InitEnv /\ IdleBridge /\ InitFlow

InitWaitSpec == IdleCleanup /\ IdleEnv /\ IdleBridge /\ InitWait

InitRerunSpec == InitHead /\ IdleEnv /\ IdleBridge /\ IdleFlow

\* the Template Cleanup Orchestrator alone
SpecCleanup == InitCleanupSpec /\ [][NextCleanup]_vars

\* the Environment Initializer alone
SpecEnv == InitEnvSpec /\ [][NextEnv]_vars

\* the Auth-Context Bridge alone
SpecBridge == InitBridgeSpec /\ [][NextBridge]_vars

\* the scripts an operator runs in a project directory: the single-step
\* setup flow, the initializer and cleanup-template.ts, with operator edits
\* of .env in between
SpecSetup == InitSetupSpec /\ [][NextSetup]_vars

\* cleanup-template.ts, run and run again
SpecRerun == InitRerunSpec /\ [][NextRerun]_vars

\* waitForLogto alone; every await of it completes: a fetch call is
\* answered or rejected, and the timer of the pause fires
SpecWait == InitWaitSpec /\ [][NextWait]_vars /\ WF_vars(NextWait)

=============================================================================
